---- MODULE Spec2Model ----
\* Model of strikethrough.py: a global-hotkey listener (pynput GlobalHotKeys)
\* whose activation callback injects a fixed keystroke sequence.
\*
\* Two threads are modelled: the main path (lines 38-48) and the listener
\* thread on which pynput delivers key events and runs the callbacks
\* (lines 13-35).  The operating system is the environment: it delivers key
\* presses and releases to the listener, receives the injected keystrokes in
\* the focused text field, and may deliver an interrupt (Ctrl+C) to the main
\* path while it is blocked in h.join().
EXTENDS Integers, Sequences, FiniteSets

\* ---------------------------------------------------------------- bounds
MaxKeyEvents == 5   \* physical key events the environment delivers in a run
MaxQueue == 2       \* key events waiting for the listener thread

\* ------------------------------------------------------------- constants
\* time.sleep(0.05), in milliseconds (line 17)
SLEEP_MS == 50

\* Canonical keys the environment can press.  "x" stands for any key that is
\* in neither combination (shift, a letter, the injected '~' and left-arrow
\* seen back by the hook).
Keys == {"cmd", "alt", "ctrl", "s", "q", "x"}

\* Variant of HOTKEY: the Option modifier missing from the string.
HOTKEY_NoAlt == {"cmd", "s"}

\* HotKey.parse('<cmd>+<alt>+s')  (line 11)
HOTKEY == {"cmd", "alt", "s"}

\* HotKey.parse('<ctrl>+<cmd>+q')  (line 46)
EXIT_HOTKEY == {"ctrl", "cmd", "q"}

\* The dict passed to keyboard.GlobalHotKeys, in insertion order (lines 44-47)
Bindings ==
  << [keys |-> HOTKEY, action |-> "on_activate"],
     [keys |-> EXIT_HOTKEY, action |-> "for_exit"] >>

\* Variant of KeystrokeSeq: the cursor is moved before the tildes are typed.
KeystrokeSeq_LeftFirst ==
  << <<"press", "left">>, <<"release", "left">>,
     <<"press", "left">>, <<"release", "left">>,
     <<"press", "~">>, <<"release", "~">>,
     <<"press", "~">>, <<"release", "~">> >>

\* Variant of KeystrokeSeq: the cursor is moved back one position only.
KeystrokeSeq_OneLeft ==
  << <<"press", "~">>, <<"release", "~">>,
     <<"press", "~">>, <<"release", "~">>,
     <<"press", "left">>, <<"release", "left">> >>

\* The press/release calls of on_activate, in program order (lines 21-30)
KeystrokeSeq ==
  << <<"press", "~">>, <<"release", "~">>,
     <<"press", "~">>, <<"release", "~">>,
     <<"press", "left">>, <<"release", "left">>,
     <<"press", "left">>, <<"release", "left">> >>

\* Variant of ActivationEvent: a toggle left by the previous invocation makes
\* every second invocation type the closing pair without moving back.
ActivationEvent_Toggle(n, i) ==
  IF n % 2 = 0 /\ i > 4 THEN KeystrokeSeq[i - 4] ELSE KeystrokeSeq[i]

\* Variant of ActivationDelay: a back-off that grows with each invocation.
ActivationDelay_Growing(n) == SLEEP_MS * n

\* The i-th press/release call of the n-th invocation of on_activate: the
\* function keeps nothing between invocations, so n is not used (lines 18-30)
ActivationEvent(n, i) == KeystrokeSeq[i]

\* The delay of the n-th invocation: time.sleep(0.05) (line 17)
ActivationDelay(n) == SLEEP_MS

\* on_activate has no return statement: it returns None (lines 13-30)
on_activate_result == "None"

\* for_exit: return False (line 35)
for_exit_result == "False"

CallbackResult(fn) == IF fn = "for_exit" THEN for_exit_result ELSE on_activate_result

\* pynput HotKey.press calls self._on_activate() as a statement and
\* GlobalHotKeys._on_press has no return statement: whatever the bound
\* callbacks return, the handler the listener runs returns None.
HandlerResult(results) == "None"

\* Variant of ShouldStop: any falsy return value (None included) stops.
ShouldStop_Falsy(r) == r # "True"

\* pynput's listener wraps its handler: `if f(*args) is False: raise
\* StopException()`; only the value False stops the listener.
ShouldStop(r) == r = "False"

\* The focused text field before the first activation: "hello", cursor at end
InitialText == <<"h", "e", "l", "l", "o">>

\* ----------------------------------------------------------------- state
VARIABLES
  proc,        \* position of the main path
  listener,    \* "NotStarted", "Listening", "Stopped"
  hook,        \* OS keyboard hook: "unacquired", "held", "released"
  hookAcquires,\* number of times the hook was acquired
  registered,  \* actions bound in the running listener
  hkstate,     \* HotKey._state of each binding: the combination keys seen down
  down,        \* keys down according to the events the listener has handled
  held,        \* keys physically down
  queue,       \* key events delivered by the OS, not yet handled
  nEvents,     \* key events delivered so far
  pend,        \* callbacks the current event still has to run
  results,     \* return values of the callbacks run for the current event
  running,     \* callback executing on the listener thread, or "none"
  pc,          \* position inside the running callback
  out,         \* standard output, one entry per line
  injected,    \* every synthetic event injected so far
  curInj,      \* synthetic events injected by the current/last on_activate
  slept,       \* milliseconds slept by the current/last on_activate
  delays,      \* the delay of every activation that reached its first event
  started,     \* on_activate invocations begun
  completed,   \* on_activate invocations returned
  exitStarted, \* for_exit invocations begun
  exitRuns,    \* for_exit invocations returned
  interrupted, \* an external interrupt reached the main path
  lastEvent,   \* the key event handled last, with whether it fired anything
  field,       \* contents of the focused text field
  cursor       \* cursor position in the field (0 = before the first char)

vars ==
  << proc, listener, hook, hookAcquires, registered, hkstate, down, held,
     queue, nEvents, pend, results, running, pc, out, injected, curInj, slept,
     delays, started, completed, exitStarted, exitRuns, interrupted,
     lastEvent, field,
     cursor >>

mainVars == << proc, listener, hook, hookAcquires, registered, interrupted >>
envVars == << held, queue, nEvents >>
cbVars ==
  << running, pc, out, injected, curInj, slept, delays, started, completed,
     exitStarted, exitRuns, field, cursor >>
dispatchVars == << hkstate, down, pend, results, lastEvent >>

Terminated == proc \in {"terminated_normal", "terminated_error"}

Init ==
  /\ proc = "print_running"
  /\ listener = "NotStarted"
  /\ hook = "unacquired"
  /\ hookAcquires = 0
  /\ registered = {}
  /\ hkstate = [i \in 1..Len(Bindings) |-> {}]
  /\ down = {}
  /\ held = {}
  /\ queue = << >>
  /\ nEvents = 0
  /\ pend = << >>
  /\ results = << >>
  /\ running = "none"
  /\ pc = 0
  /\ out = << >>
  /\ injected = << >>
  /\ curInj = << >>
  /\ slept = 0
  /\ delays = << >>
  /\ started = 0
  /\ completed = 0
  /\ exitStarted = 0
  /\ exitRuns = 0
  /\ interrupted = FALSE
  /\ lastEvent = [kind |-> "none", key |-> "none", before |-> {},
                  fired |-> << >>, stopped |-> FALSE, outBefore |-> 0,
                  injBefore |-> 0]
  /\ field = InitialText
  /\ cursor = Len(InitialText)

\* ------------------------------------------------------ the focused field
InsertAt(text, pos, ch) ==
  SubSeq(text, 1, pos) \o <<ch>> \o SubSeq(text, pos + 1, Len(text))

\* What the focused text field does with one injected event: a press of '~'
\* inserts at the cursor, a press of left-arrow moves the cursor one position
\* left, a release does nothing.
FieldAfter(ev) ==
  IF ev = <<"press", "~">> THEN InsertAt(field, cursor, "~") ELSE field

CursorAfter(ev) ==
  IF ev = <<"press", "~">> THEN cursor + 1
  ELSE IF ev = <<"press", "left">> THEN (IF cursor > 0 THEN cursor - 1 ELSE 0)
  ELSE cursor

\* -------------------------------------------------------------- main path
\* print(f"Strikethrough script running in the background.")  (line 39)
PrintRunning ==
  /\ proc = "print_running"
  /\ out' = Append(out, "running")
  /\ proc' = "print_listening"
  /\ UNCHANGED << listener, hook, hookAcquires, registered, interrupted >>
  /\ UNCHANGED << running, pc, injected, curInj, slept, delays, started,
                  completed, exitStarted, exitRuns, field, cursor >>
  /\ UNCHANGED << envVars, dispatchVars >>

\* print(f"Listening for hotkey: {HOTKEY}")  (line 40)
PrintListening ==
  /\ proc = "print_listening"
  /\ out' = Append(out, "listening")
  /\ proc' = "print_stop"
  /\ UNCHANGED << listener, hook, hookAcquires, registered, interrupted >>
  /\ UNCHANGED << running, pc, injected, curInj, slept, delays, started,
                  completed, exitStarted, exitRuns, field, cursor >>
  /\ UNCHANGED << envVars, dispatchVars >>

\* print("Press Ctrl+C in this terminal to stop the script.")  (line 41)
PrintStop ==
  /\ proc = "print_stop"
  /\ out' = Append(out, "stop_instruction")
  /\ proc' = "enter_with"
  /\ UNCHANGED << listener, hook, hookAcquires, registered, interrupted >>
  /\ UNCHANGED << running, pc, injected, curInj, slept, delays, started,
                  completed, exitStarted, exitRuns, field, cursor >>
  /\ UNCHANGED << envVars, dispatchVars >>

\* with keyboard.GlobalHotKeys({...}) as h:  (lines 44-47)
\* The constructor builds one HotKey per dict entry; __enter__ starts the
\* listener thread, which installs the OS keyboard hook.
EnterWith ==
  /\ proc = "enter_with"
  /\ registered' = {Bindings[i].action : i \in 1..Len(Bindings)}
  /\ hkstate' = [i \in 1..Len(Bindings) |-> {}]
  /\ hook' = "held"
  /\ hookAcquires' = hookAcquires + 1
  /\ listener' = "Listening"
  /\ proc' = "join"
  /\ UNCHANGED << interrupted, down, pend, results, lastEvent >>
  /\ UNCHANGED << envVars, cbVars >>

\* Why a thread blocked in h.join() (line 48) can leave it: the listener
\* thread has ended, or KeyboardInterrupt is raised in the main thread.
JoinCauses ==
  (IF listener = "Stopped" THEN {"returned"} ELSE {}) \cup {"interrupt"}

\* h.join() ends (line 48)
LeaveJoin(cause) ==
  /\ proc = "join"
  /\ cause \in JoinCauses
  /\ proc' = IF cause = "returned" THEN "exit_with_normal" ELSE "exit_with_raised"
  /\ interrupted' = (cause = "interrupt")
  /\ UNCHANGED << listener, hook, hookAcquires, registered >>
  /\ UNCHANGED << envVars, cbVars, dispatchVars >>

\* Leaving the with block (lines 44-48): __exit__ calls h.stop(), which stops
\* the listener and removes the hook, whether the block ended normally or by
\* an exception; an exception then continues to propagate.
\* Variant of HookAfterExit: h.stop() written after h.join() instead of a
\* with block, so that it is skipped when join raises.
HookAfterExit_NoCleanupOnRaise(p) ==
  IF p = "exit_with_normal" THEN "released" ELSE hook

HookAfterExit(p) == "released"

ExitWith ==
  /\ proc \in {"exit_with_normal", "exit_with_raised"}
  /\ listener' = "Stopped"
  /\ hook' = HookAfterExit(proc)
  /\ proc' = IF proc = "exit_with_normal" THEN "end_normal" ELSE "end_raised"
  /\ UNCHANGED << hookAcquires, registered, interrupted >>
  /\ UNCHANGED << envVars, cbVars, dispatchVars >>

\* End of the script (after line 48).  Nothing catches KeyboardInterrupt, so
\* on that path the interpreter ends with the unhandled exception.  The
\* listener thread is a daemon thread and ends with the process.
\* Variant of ProcessEndState: KeyboardInterrupt caught and swallowed.
ProcessEndState_Swallowed(p) == "terminated_normal"

ProcessEndState(p) ==
  IF p = "end_normal" THEN "terminated_normal" ELSE "terminated_error"

ProcessEnd ==
  /\ proc \in {"end_normal", "end_raised"}
  /\ proc' = ProcessEndState(proc)
  /\ UNCHANGED << listener, hook, hookAcquires, registered, interrupted >>
  /\ UNCHANGED << envVars, cbVars, dispatchVars >>

\* ------------------------------------------------------------ environment
\* The OS delivers a key press to the hook (a press of a key already down is
\* keyboard auto-repeat).
KeyPress(k) ==
  /\ hook = "held"
  /\ ~Terminated
  /\ nEvents < MaxKeyEvents
  /\ Len(queue) < MaxQueue
  /\ held' = held \cup {k}
  /\ queue' = Append(queue, <<"press", k>>)
  /\ nEvents' = nEvents + 1
  /\ UNCHANGED << mainVars, cbVars, dispatchVars >>

\* The OS delivers a key release to the hook.
KeyRelease(k) ==
  /\ hook = "held"
  /\ ~Terminated
  /\ k \in held
  /\ nEvents < MaxKeyEvents
  /\ Len(queue) < MaxQueue
  /\ held' = held \ {k}
  /\ queue' = Append(queue, <<"release", k>>)
  /\ nEvents' = nEvents + 1
  /\ UNCHANGED << mainVars, cbVars, dispatchVars >>

\* ------------------------------------------------- listener thread: pynput
\* HotKey.press(key): `if key in self._keys and key not in self._state:
\* self._state.add(key)`; HotKey.release(key): `if key in self._state:
\* self._state.remove(key)`.
HotKeyState(i, ev) ==
  IF ev[1] = "press"
  THEN (IF ev[2] \in Bindings[i].keys /\ ev[2] \notin hkstate[i]
        THEN hkstate[i] \cup {ev[2]} ELSE hkstate[i])
  ELSE hkstate[i] \ {ev[2]}

\* HotKey.press(key) calls the bound action when the key was newly added and
\* `self._state == self._keys`.
HotKeyFires(i, ev) ==
  /\ ev[1] = "press"
  /\ ev[2] \in Bindings[i].keys
  /\ ev[2] \notin hkstate[i]
  /\ HotKeyState(i, ev) = Bindings[i].keys

\* The callbacks one event runs, in the order of the bindings
\* (GlobalHotKeys._on_press: `for hotkey in self._hotkeys: hotkey.press(...)`).
RECURSIVE FiredFrom(_, _)
FiredFrom(i, ev) ==
  IF i > Len(Bindings) THEN << >>
  ELSE (IF HotKeyFires(i, ev) THEN << Bindings[i].action >> ELSE << >>)
       \o FiredFrom(i + 1, ev)

\* The listener after its handler returned r: it stops itself (and its thread
\* removes the hook) when the wrapper sees the stop value.
ListenerAfter(r) == IF ShouldStop(r) THEN "Stopped" ELSE listener
HookAfter(r) == IF ShouldStop(r) THEN "released" ELSE hook

\* The listener thread takes the next key event and runs GlobalHotKeys'
\* handler on it (registered by lines 44-47).  Events are handled one at a
\* time: the next one is taken only after the handler, callbacks included,
\* has returned.
ListenerIdle == running = "none" /\ pend = << >>

Dispatch ==
  /\ listener = "Listening"
  /\ ~Terminated
  /\ ListenerIdle
  /\ queue # << >>
  /\ LET ev == Head(queue)
         fired == FiredFrom(1, ev)
         r == HandlerResult(<< >>)
     IN /\ queue' = Tail(queue)
        /\ hkstate' = [i \in 1..Len(Bindings) |-> HotKeyState(i, ev)]
        /\ down' = IF ev[1] = "press" THEN down \cup {ev[2]} ELSE down \ {ev[2]}
        /\ pend' = fired
        /\ results' = << >>
        /\ listener' = IF fired = << >> THEN ListenerAfter(r) ELSE listener
        /\ hook' = IF fired = << >> THEN HookAfter(r) ELSE hook
        /\ lastEvent' = [kind |-> ev[1], key |-> ev[2], before |-> down,
                         fired |-> fired,
                         stopped |-> (fired = << >> /\ ShouldStop(r)),
                         outBefore |-> Len(out), injBefore |-> Len(injected)]
  /\ UNCHANGED << proc, hookAcquires, registered, interrupted >>
  /\ UNCHANGED << held, nEvents, cbVars >>

\* HotKey.press invokes the bound action.
StartCallback ==
  /\ ~Terminated
  /\ running = "none"
  /\ pend # << >>
  /\ running' = Head(pend)
  /\ pend' = Tail(pend)
  /\ pc' = 0
  /\ started' = IF Head(pend) = "on_activate" THEN started + 1 ELSE started
  /\ exitStarted' = IF Head(pend) = "for_exit" THEN exitStarted + 1 ELSE exitStarted
  /\ curInj' = IF Head(pend) = "on_activate" THEN << >> ELSE curInj
  /\ slept' = IF Head(pend) = "on_activate" THEN 0 ELSE slept
  /\ UNCHANGED << mainVars, envVars, hkstate, down, results, lastEvent >>
  /\ UNCHANGED << out, injected, delays, completed, exitRuns, field, cursor >>

\* The handler's outcome once callback fn has returned: more callbacks of the
\* same event follow, or the handler returns and the listener's wrapper looks
\* at its return value.
AfterCallback(fn) ==
  LET rs == Append(results, CallbackResult(fn))
      r == HandlerResult(rs)
  IN /\ results' = rs
     /\ running' = "none"
     /\ pc' = 0
     /\ listener' = IF pend = << >> THEN ListenerAfter(r) ELSE listener
     /\ hook' = IF pend = << >> THEN HookAfter(r) ELSE hook
     /\ lastEvent' = [lastEvent EXCEPT !.stopped = (pend = << >> /\ ShouldStop(r))]

\* ------------------------------------------------------------ on_activate
\* print("Hotkey activated. Typing strikethrough.")  (line 15)
OnActivatePrint ==
  /\ ~Terminated
  /\ running = "on_activate"
  /\ pc = 0
  /\ out' = Append(out, "activated")
  /\ pc' = 1
  /\ UNCHANGED << mainVars, envVars, dispatchVars >>
  /\ UNCHANGED << running, injected, curInj, slept, delays, started, completed,
                  exitStarted, exitRuns, field, cursor >>

\* time.sleep(0.05); kb_controller = keyboard.Controller()  (lines 17-18)
OnActivateSleep ==
  /\ ~Terminated
  /\ running = "on_activate"
  /\ pc = 1
  /\ slept' = slept + ActivationDelay(started)
  /\ pc' = 2
  /\ UNCHANGED << mainVars, envVars, dispatchVars >>
  /\ UNCHANGED << running, out, injected, curInj, delays, started, completed,
                  exitStarted, exitRuns, field, cursor >>

\* One kb_controller.press / kb_controller.release call (lines 21-30); the
\* event goes to whatever holds input focus.
OnActivateInject ==
  /\ ~Terminated
  /\ running = "on_activate"
  /\ pc >= 2
  /\ pc - 1 <= Len(KeystrokeSeq)
  /\ LET ev == ActivationEvent(started, pc - 1)
     IN /\ injected' = Append(injected, ev)
        /\ curInj' = Append(curInj, ev)
        /\ field' = FieldAfter(ev)
        /\ cursor' = CursorAfter(ev)
  /\ delays' = IF curInj = << >> THEN Append(delays, slept) ELSE delays
  /\ pc' = pc + 1
  /\ UNCHANGED << mainVars, envVars, dispatchVars >>
  /\ UNCHANGED << running, out, slept, started, completed, exitStarted,
                  exitRuns >>

\* on_activate returns (after line 30)
OnActivateReturn ==
  /\ ~Terminated
  /\ running = "on_activate"
  /\ pc = Len(KeystrokeSeq) + 2
  /\ completed' = completed + 1
  /\ AfterCallback("on_activate")
  /\ UNCHANGED << proc, hookAcquires, registered, interrupted >>
  /\ UNCHANGED << envVars, hkstate, down, pend >>
  /\ UNCHANGED << out, injected, curInj, slept, delays, started, exitStarted,
                  exitRuns, field, cursor >>

\* --------------------------------------------------------------- for_exit
\* Variant of ForExitPrint: for_exit without its print.
ForExitPrint_Silent ==
  /\ ~Terminated
  /\ running = "for_exit"
  /\ pc = 0
  /\ pc' = 1
  /\ UNCHANGED << mainVars, envVars, dispatchVars >>
  /\ UNCHANGED << running, out, injected, curInj, slept, delays, started,
                  completed, exitStarted, exitRuns, field, cursor >>

\* print("Exiting strikethrough script.")  (line 34)
ForExitPrint ==
  /\ ~Terminated
  /\ running = "for_exit"
  /\ pc = 0
  /\ out' = Append(out, "exiting")
  /\ pc' = 1
  /\ UNCHANGED << mainVars, envVars, dispatchVars >>
  /\ UNCHANGED << running, injected, curInj, slept, delays, started, completed,
                  exitStarted, exitRuns, field, cursor >>

\* return False  (line 35)
ForExitReturn ==
  /\ ~Terminated
  /\ running = "for_exit"
  /\ pc = 1
  /\ exitRuns' = exitRuns + 1
  /\ AfterCallback("for_exit")
  /\ UNCHANGED << proc, hookAcquires, registered, interrupted >>
  /\ UNCHANGED << envVars, hkstate, down, pend >>
  /\ UNCHANGED << out, injected, curInj, slept, delays, started, completed,
                  exitStarted, field, cursor >>

\* ----------------------------------------------------------- specification
Next ==
  \/ PrintRunning
  \/ PrintListening
  \/ PrintStop
  \/ EnterWith
  \/ \E cause \in JoinCauses : LeaveJoin(cause)
  \/ ExitWith
  \/ ProcessEnd
  \/ \E k \in Keys : KeyPress(k)
  \/ \E k \in Keys : KeyRelease(k)
  \/ Dispatch
  \/ StartCallback
  \/ OnActivatePrint
  \/ OnActivateSleep
  \/ OnActivateInject
  \/ OnActivateReturn
  \/ ForExitPrint
  \/ ForExitReturn

Spec == Init /\ [][Next]_vars

\* ================================================================ claims
Count(seq, x) == Cardinality({i \in 1..Len(seq) : seq[i] = x})

IsPrefix(a, b) == Len(a) <= Len(b) /\ SubSeq(b, 1, Len(a)) = a

RECURSIVE Repeat(_, _)
Repeat(seq, n) == IF n <= 0 THEN << >> ELSE seq \o Repeat(seq, n - 1)

\* The eight events the claims name
EightEvents ==
  << <<"press", "~">>, <<"release", "~">>,
     <<"press", "~">>, <<"release", "~">>,
     <<"press", "left">>, <<"release", "left">>,
     <<"press", "left">>, <<"release", "left">> >>

StartupLines == << "running", "listening", "stop_instruction" >>

NoInvocationInFlight == running # "on_activate"

\* C1: every invocation of on_activate that returns, the first as the later
\* ones, has injected exactly the eight events press ~, release ~, press ~,
\* release ~, press left, release left, press left, release left, in this
\* order; while it runs it has injected a prefix of them.
C1_ActivationInjectsEightEvents ==
  /\ IsPrefix(curInj, EightEvents)
  /\ (started > 0 /\ started = completed /\ NoInvocationInFlight)
       => curInj = EightEvents

C1_Witness ==
  completed = 2 /\ NoInvocationInFlight /\ curInj = EightEvents

\* C2: once the exit combination has fired and for_exit has returned, the
\* listener is Stopped (so that h.join() returns and the process exits).
C2_ExitCombinationStopsListener ==
  exitRuns > 0 => listener = "Stopped"

\* C3 (as claimed): with "hello" and the cursor at the end, one activation
\* leaves "hello~~" with the cursor between the two tildes (position 6).
C3_CursorBetweenTildes ==
  (started = 1 /\ completed = 1)
    => /\ field = <<"h", "e", "l", "l", "o", "~", "~">>
       /\ cursor = 6

\* C3 (amended): with "hello" and the cursor at the end, one activation
\* leaves "hello~~" with the cursor before both tildes (position 5).
C3_CursorBeforeTildes ==
  (started = 1 /\ completed = 1)
    => /\ field = <<"h", "e", "l", "l", "o", "~", "~">>
       /\ cursor = 5

C3_Witness ==
  started = 1 /\ completed = 1 /\ Len(field) = 7 /\ cursor = 5

\* C4: the listener is out of Listening, or the main path is past h.join(),
\* only if the exit combination has fired or an external interrupt arrived;
\* activations alone never stop the listener or end the process.
C4_ExitExclusivity ==
  (listener = "Stopped" \/ proc \notin
      {"print_running", "print_listening", "print_stop", "enter_with", "join"})
    => (interrupted \/ exitStarted > 0)

C4_Witness ==
  completed = 2 /\ exitStarted = 0 /\ ~interrupted /\ listener = "Listening"
    /\ proc = "join"

\* The keys down after the event handled last
DownAfterLast ==
  IF lastEvent.kind = "press" THEN lastEvent.before \cup {lastEvent.key}
  ELSE lastEvent.before \ {lastEvent.key}

\* The event handled last had no effect: it ran no callback, did not stop
\* the listener, and nothing was printed or injected since it was taken.
LastEventNoOp ==
  /\ lastEvent.fired = << >>
  /\ ~lastEvent.stopped
  /\ Len(out) = lastEvent.outBefore
  /\ Len(injected) = lastEvent.injBefore

\* C5 (as claimed): a key event after which the keys down are not exactly
\* Command+Option+s and not exactly Control+Command+q has no effect.
C5_ExactCombinationOnly ==
  (lastEvent.kind # "none"
     /\ ~(lastEvent.kind = "press"
          /\ DownAfterLast \in {{"cmd", "alt", "s"}, {"ctrl", "cmd", "q"}}))
    => LastEventNoOp

\* The event handled last is a new press of a key of combination c after
\* which every key of c is down (other keys may be down as well).
LastEventCompletes(c) ==
  /\ lastEvent.kind = "press"
  /\ lastEvent.key \in c
  /\ lastEvent.key \notin lastEvent.before
  /\ c \subseteq DownAfterLast

\* C5 (amended): a key event that is not a new press bringing all keys of
\* Command+Option+s, or all keys of Control+Command+q, down (keys outside the
\* combination being ignored) has no effect; and on_activate runs only for
\* the first combination, for_exit only for the second.
C5_NoOpUnlessCombinationCompleted ==
  /\ (lastEvent.kind # "none"
        /\ ~LastEventCompletes({"cmd", "alt", "s"})
        /\ ~LastEventCompletes({"ctrl", "cmd", "q"}))
       => LastEventNoOp
  /\ \A i \in 1..Len(lastEvent.fired) :
       /\ lastEvent.fired[i] = "on_activate" => LastEventCompletes({"cmd", "alt", "s"})
       /\ lastEvent.fired[i] = "for_exit" => LastEventCompletes({"ctrl", "cmd", "q"})

C5_Witness ==
  /\ lastEvent.kind = "press"
  /\ lastEvent.key = "s"
  /\ lastEvent.before = {"cmd", "alt", "s"}
  /\ LastEventNoOp
  /\ completed = 1

\* C6 (as claimed): the output of a complete run is the three startup lines,
\* one line per activation and exactly one exit line, however it ended.
C6_ExactlyOneExitLine ==
  Terminated
    => /\ IsPrefix(StartupLines, out)
       /\ Count(out, "activated") = started
       /\ Count(out, "exiting") = 1
       /\ Len(out) = 3 + started + 1

\* Invocations of fn that have begun but not reached their print yet
Unprinted(fn) == IF running = fn /\ pc = 0 THEN 1 ELSE 0

\* C6 (amended): the output is the three startup lines, printed before
\* listening begins, then one line per run of on_activate and one exit line
\* per run of for_exit (none when the exit combination never fired, several
\* when it fired several times); an external interrupt prints no line.
C6_OutputLines ==
  /\ listener # "NotStarted" => IsPrefix(StartupLines, out)
  /\ listener = "NotStarted" => IsPrefix(out, StartupLines)
  /\ Count(out, "activated") = started - Unprinted("on_activate")
  /\ Count(out, "exiting") = exitStarted - Unprinted("for_exit")
  /\ Len(out) = Count(out, "running") + Count(out, "listening")
                  + Count(out, "stop_instruction") + Count(out, "activated")
                  + Count(out, "exiting")
  /\ Count(out, "running") <= 1
  /\ Count(out, "listening") <= 1
  /\ Count(out, "stop_instruction") <= 1

C6_Witness ==
  /\ Terminated
  /\ interrupted
  /\ exitRuns = 2
  /\ Count(out, "exiting") = 2
  /\ Len(out) = 5

\* C7 (as claimed): a run ended by an external interrupt during h.join()
\* terminates normally.
C7_InterruptEndsNormally ==
  (interrupted /\ Terminated) => proc = "terminated_normal"

\* C7 (amended): an external interrupt during h.join() is not caught: the
\* with block stops the listener and releases the hook, and the process then
\* ends with the unhandled KeyboardInterrupt, not by reaching the end of the
\* script.
C7_InterruptEndsWithUnhandledException ==
  /\ interrupted => proc \in {"exit_with_raised", "end_raised", "terminated_error"}
  /\ (interrupted /\ Terminated)
       => proc = "terminated_error" /\ listener = "Stopped" /\ hook = "released"

C7_Witness ==
  interrupted /\ proc = "terminated_error" /\ completed = 1

\* C8: the injected stream is one complete copy of the eight events per
\* returned activation, followed only by the events of the one activation in
\* progress, if any: events of two activations never interleave and the
\* N-th copy equals the first.
C8_WholeCopiesInOrder ==
  /\ started - completed \in {0, 1}
  /\ started > completed => IsPrefix(curInj, EightEvents)
  /\ injected = Repeat(EightEvents, completed)
                  \o (IF started > completed THEN curInj ELSE << >>)
  /\ (ListenerIdle /\ queue = << >>) => injected = Repeat(EightEvents, started)

C8_Witness ==
  /\ started = 2
  /\ completed = 1
  /\ Len(curInj) = 3
  /\ listener = "Listening"

\* C9: in every activation the notice is printed before the delay, the delay
\* is 50 ms and has fully elapsed before the first event is injected, and it
\* is the same 50 ms for the first and for every later activation.
C9_NoticeThenFixedDelayThenEvents ==
  /\ (running = "on_activate" /\ slept > 0)
       => Count(out, "activated") = started
  /\ curInj # << >> => slept = 50 /\ Count(out, "activated") = started
  /\ \A i \in 1..Len(delays) : delays[i] = 50
  /\ Len(delays) <= started

C9_Witness ==
  Len(delays) = 2 /\ delays[2] = 50 /\ Len(curInj) = 1

====
